---- MODULE Spec2Model ----
(***************************************************************************)
(* fk-converter: option resolution, validation, ffmpeg argument building   *)
(* and the Convert pipeline (probe, start, stderr consumption, wait).      *)
(*                                                                         *)
(* Text.  A Go string is modelled as a sequence of atoms; the string is    *)
(* the concatenation of its atoms.  "." , "/" and "x" are atoms of their   *)
(* own and no other atom contains them, so strings.Split, TrimSuffix and   *)
(* the resolution pattern work on atoms exactly as they work on bytes.     *)
(* The empty string is << >>.                                              *)
(***************************************************************************)
EXTENDS Integers, Sequences, FiniteSets, TLC

\* ------------------------------------------------------------------ bounds
MaxPathLen == 3      \* atoms in an enumerated path
MaxResolves == 2     \* times ResolveOutput is applied in SpecOptions
MaxLines == 3        \* lines the encoder writes to its diagnostic stream
PipeCap == 2         \* units an unread pipe holds (Linux: 65536 bytes)
MaxTok == 2          \* units of bufio.MaxScanTokenSize (65536 bytes)
IntBits == 16        \* width of int64 / time.Duration in the model

\* --------------------------------------------------------------- constants
Microsecond == 1000  \* time.Microsecond in time.Duration ticks

\* -------------------------------------------------------------------- text
Empty == << >>

T(a) == << a >>

RECURSIVE Split(_, _)
\* strings.Split(s, sep) for a one-atom separator: n separators give n+1 parts
Split(s, sep) ==
  IF \A i \in 1..Len(s) : s[i] # sep
    THEN << s >>
    ELSE LET i == CHOOSE k \in 1..Len(s) :
                    s[k] = sep /\ \A j \in 1..(k-1) : s[j] # sep
         IN  << SubSeq(s, 1, i-1) >> \o Split(SubSeq(s, i+1, Len(s)), sep)

HasSuffix(s, suf) ==
  /\ Len(suf) <= Len(s)
  /\ SubSeq(s, Len(s) - Len(suf) + 1, Len(s)) = suf

TrimSuffix(s, suf) ==
  IF HasSuffix(s, suf) THEN SubSeq(s, 1, Len(s) - Len(suf)) ELSE s

\* strings.Contains(s, sub)
Contains(s, sub) ==
  \E i \in 0..(Len(s) - Len(sub)) : SubSeq(s, i+1, i+Len(sub)) = sub

Digit(d) ==
  CASE d = 0 -> "0" [] d = 1 -> "1" [] d = 2 -> "2" [] d = 3 -> "3"
    [] d = 4 -> "4" [] d = 5 -> "5" [] d = 6 -> "6" [] d = 7 -> "7"
    [] d = 8 -> "8" [] d = 9 -> "9"

RECURSIVE Itoa(_)
\* strconv.Itoa for n >= 0: the decimal digits, most significant first
Itoa(n) == IF n < 10 THEN << Digit(n) >> ELSE Itoa(n \div 10) \o << Digit(n % 10) >>

\* ------------------------------------------------------------------ tables
QualityLow == T("low")
QualityMedium == T("medium")
QualityHigh == T("high")
QualityLossless == T("lossless")

Qualities == { QualityLow, QualityMedium, QualityHigh, QualityLossless }

crfMap_Shifted(q) ==
  CASE q = QualityLow -> 28
    [] q = QualityMedium -> 28
    [] q = QualityHigh -> 23
    [] q = QualityLossless -> 18
    [] OTHER -> 0

\* crfMap[q]; a missing key reads as Go's zero value
crfMap(q) ==
  CASE q = QualityLow -> 28
    [] q = QualityMedium -> 23
    [] q = QualityHigh -> 18
    [] q = QualityLossless -> 0
    [] OTHER -> 0

supportedFormats == { T("mp4"), T("mkv"), T("webm"), T("avi"), T("mov") }

Codecs == { T("h264"), T("h265"), T("vp9") }

LibX264 == << "lib", "x264" >>
LibX265 == << "lib", "x265" >>
LibVpxVp9 == << "lib", "vpx", "-vp9" >>

\* codecMap[c]; a missing key reads as the empty string
codecMap(c) ==
  CASE c = T("h264") -> LibX264
    [] c = T("h265") -> LibX265
    [] c = T("vp9") -> LibVpxVp9
    [] OTHER -> Empty

ResolutionPresets ==
  { T("2160p"), T("1440p"), T("1080p"), T("720p"), T("480p"), T("360p") }

\* atoms that are runs of decimal digits
DigitAtoms == { "0", "640", "1080", "1920" }

\* ^\d+x\d+$ : one or more digits, "x", one or more digits, nothing else
MatchesWxH(res) ==
  \E i \in 2..(Len(res) - 1) :
    /\ res[i] = "x"
    /\ \A j \in 1..(i-1) : res[j] \in DigitAtoms
    /\ \A j \in (i+1)..Len(res) : res[j] \in DigitAtoms

isValidResolution(res) ==
  IF res \in ResolutionPresets THEN TRUE ELSE MatchesWxH(res)

\* the scale expression of a resolution ValidateOptions accepted
resolveScale(res) ==
  CASE res = T("2160p") -> T("scale=-2:2160")
    [] res = T("1440p") -> T("scale=-2:1440")
    [] res = T("1080p") -> T("scale=-2:1080")
    [] res = T("720p") -> T("scale=-2:720")
    [] res = T("480p") -> T("scale=-2:480")
    [] res = T("360p") -> T("scale=-2:360")
    [] OTHER -> LET parts == Split(res, "x")
                IN  << "scale=" >> \o parts[1] \o << ":" >> \o parts[2]

getExtension(filename) ==
  LET parts == Split(filename, ".")
  IN  IF Len(parts) > 1 THEN parts[Len(parts)] ELSE Empty

\* ----------------------------------------------------------------- options
ResolveOutput_InferAlways(o) ==
  LET parts == Split(o.Output, ".")
      f1 == IF o.Output # Empty /\ Len(parts) > 1
              THEN parts[Len(parts)] ELSE o.Format
      f2 == IF f1 = Empty THEN T("mp4") ELSE f1
      base == TrimSuffix(o.Input, << "." >> \o getExtension(o.Input))
      out == IF o.Output = Empty
               THEN base \o << "_converted", "." >> \o f2 ELSE o.Output
      q == IF o.Quality = Empty THEN QualityMedium ELSE o.Quality
  IN  [o EXCEPT !.Format = f2, !.Output = out, !.Quality = q]

ResolveOutput(o) ==
  LET parts == Split(o.Output, ".")
      f1 == IF o.Output # Empty /\ o.Format = Empty /\ Len(parts) > 1
              THEN parts[Len(parts)] ELSE o.Format
      f2 == IF f1 = Empty THEN T("mp4") ELSE f1
      base == TrimSuffix(o.Input, << "." >> \o getExtension(o.Input))
      out == IF o.Output = Empty
               THEN base \o << "_converted", "." >> \o f2 ELSE o.Output
      q == IF o.Quality = Empty THEN QualityMedium ELSE o.Quality
  IN  [o EXCEPT !.Format = f2, !.Output = out, !.Quality = q]

ValidateOptions_NoFormatCheck(o, stat) ==
  IF stat = "notexist" THEN "input_not_found"
  ELSE IF o.Codec # Empty /\ o.Codec \notin Codecs THEN "unsupported_codec"
  ELSE IF o.Quality # Empty /\ o.Quality \notin Qualities THEN "unsupported_quality"
  ELSE IF o.Resolution # Empty /\ ~isValidResolution(o.Resolution) THEN "invalid_resolution"
  ELSE "nil"

\* the error ValidateOptions returns, "nil" for none; stat is os.Stat's outcome
ValidateOptions(o, stat) ==
  IF stat = "notexist" THEN "input_not_found"
  ELSE IF o.Format # Empty /\ o.Format \notin supportedFormats THEN "unsupported_format"
  ELSE IF o.Codec # Empty /\ o.Codec \notin Codecs THEN "unsupported_codec"
  ELSE IF o.Quality # Empty /\ o.Quality \notin Qualities THEN "unsupported_quality"
  ELSE IF o.Resolution # Empty /\ ~isValidResolution(o.Resolution) THEN "invalid_resolution"
  ELSE "nil"

selectCodec_FormatFirst(o) ==
  IF o.Format = T("webm") THEN LibVpxVp9
  ELSE IF o.Codec # Empty THEN codecMap(o.Codec)
  ELSE LibX264

\* the video codec library buildFFmpegArgs selects
selectCodec(o) ==
  IF o.Codec # Empty THEN codecMap(o.Codec)
  ELSE IF o.Format = T("webm") THEN LibVpxVp9
  ELSE LibX264

buildFFmpegArgs(o) ==
  LET codec == selectCodec(o)
      crf == crfMap(o.Quality)
  IN  << T("-i"), o.Input, T("-y"), T("-progress"), T("pipe:2"), T("-nostats") >>
      \o << T("-c:v"), codec >>
      \o (IF Contains(codec, T("vpx"))
            THEN << T("-crf"), Itoa(crf), T("-b:v"), T("0") >>
            ELSE << T("-crf"), Itoa(crf) >>)
      \o << T("-c:a"), T("aac"), T("-b:a"), T("128k") >>
      \o (IF o.Resolution # Empty THEN << T("-vf"), resolveScale(o.Resolution) >> ELSE << >>)
      \o << o.Output >>

\* ------------------------------------------------------------- arithmetic
MaxInt == 2^(IntBits - 1) - 1
MinInt == 0 - 2^(IntBits - 1)

\* two's-complement wrap of x to IntBits bits
Wrap(x) ==
  LET m == x % (2^IntBits)
  IN  IF m > MaxInt THEN m - 2^IntBits ELSE m

Abs(x) == IF x < 0 THEN 0 - x ELSE x

RECURSIVE GCD(_, _)
GCD(a, b) == IF b = 0 THEN a ELSE GCD(b, a % b)

\* the quotient n/d (d # 0) as a fraction in lowest terms, denominator positive
Rat(n, d) ==
  LET g == GCD(Abs(n), Abs(d))
      s == IF d < 0 THEN 0 - 1 ELSE 1
  IN  [n |-> (s * n) \div g, d |-> (s * d) \div g]

RatGT(p, k) == p.n > k * p.d
RatLT(p, k) == p.n < k * p.d

\* the percentage parseProgress hands to the callback for a parsed marker
percentOf(us, total) ==
  LET current == Wrap(us * Microsecond)
      percent == Rat(current * 100, total)
  IN  IF RatGT(percent, 100) THEN Rat(100, 1) ELSE percent

\* strconv.ParseInt(digits, 10, 64) fails on a value above the maximum
ParseIntOk(us) == us <= MaxInt

\* ------------------------------------------------------------------- state
VARIABLES
  pc,             \* position in RunE / Convert, or "fn" in SpecOptions
  viaCLI,         \* Convert was called by the convert command
  ffmpegInPath,   \* exec.LookPath("ffmpeg") succeeds
  stat,           \* os.Stat(opts.Input): "ok", "notexist" or "other"
  opts,           \* the Options struct
  opts0,          \* the request as the caller built it
  prev,           \* opts before the latest ResolveOutput
  resolves,       \* calls of ResolveOutput so far
  result,         \* "none", "nil" or the error returned
  args,           \* the argument list last built
  argsBuilt,      \* calls of buildFFmpegArgs so far
  procs,          \* external processes started, in order
  hasCallback,    \* onProgress != nil
  probe,          \* what the duration probe did
  totalDuration,  \* Convert's totalDuration
  capture,        \* cmd.StderrPipe(): "none", "ok", "fail"
  start,          \* cmd.Start(): "none", "ok", "fail"
  usedParser,     \* Convert called parseProgress
  encState,       \* encoder process: "none", "running", "exited"
  exitStatus,     \* encoder's exit status
  encLine,        \* the line the encoder is writing
  encRem,         \* units of it still to write
  encLines,       \* lines the encoder has begun
  markersWritten, \* of them, lines carrying an out_time_us marker
  lineBudget,     \* lines the encoder may write in this run
  pipe,           \* units written to stderr and not yet read
  scanBuf,        \* units the scanner holds of an unfinished line
  readLines,      \* lines scanner.Scan() returned, in order
  delivered       \* callback invocations, in order

vars ==
  << pc, viaCLI, ffmpegInPath, stat, opts, opts0, prev, resolves, result, args,
     argsBuilt, procs, hasCallback, probe, totalDuration, capture, start,
     usedParser, encState, exitStatus, encLine, encRem, encLines, markersWritten,
     lineBudget, pipe, scanBuf, readLines, delivered >>

optVars == << opts, prev, resolves >>
cliVars == << viaCLI, ffmpegInPath, stat, opts0, hasCallback, lineBudget >>
encVars == << encState, exitStatus, encLine, encRem, encLines, markersWritten >>
readVars == << scanBuf, readLines, delivered >>
convVars == << args, argsBuilt, procs, probe, totalDuration, capture, start, usedParser >>

\* ------------------------------------------------------------------ inputs
Req(i, o, f, q, r, c) ==
  [Input |-> i, Output |-> o, Format |-> f, Quality |-> q, Resolution |-> r, Codec |-> c]

Stats == { "ok", "notexist", "other" }

PathAtoms == { "a", "mkv", ".", "/" }

AllPaths == UNION { [1..n -> PathAtoms] : n \in 0..MaxPathLen }

\* an input names a file: it does not end in a path separator
InputPaths == { p \in AllPaths : p = Empty \/ p[Len(p)] # "/" }

FewInputs == { << "a", ".", "mov" >>, << "movie" >> }

FewOutputs ==
  { Empty, << "out", ".", "webm" >>, << "out", ".", "flv" >>, << "out", "." >>, << "out" >> }

FormatInputs == { Empty, T("flv") } \cup supportedFormats
QualityInputs == { Empty, T("ultra") } \cup Qualities
CodecInputs == { Empty, T("av1") } \cup Codecs

ResolutionInputs ==
  { Empty, T("720p"), T("1080p"), T("big"), << "1920", "x", "1080" >>,
    << "x", "1080" >>, << "1920", "x" >>, << "1920", "x", "1080", "x", "0" >> }

\* requests that vary the paths
PathRequests ==
  { Req(i, o, f, q, Empty, Empty) :
      i \in InputPaths, o \in FewOutputs, f \in { Empty, T("webm"), T("flv") },
      q \in { Empty, QualityLow } }
  \cup
  { Req(i, o, f, q, Empty, Empty) :
      i \in FewInputs, o \in AllPaths, f \in { Empty, T("webm"), T("flv") },
      q \in { Empty, QualityLow } }

\* requests that vary the options
OptionRequests ==
  { Req(<< "a", ".", "mov" >>, o, f, q, r, c) :
      o \in { Empty, << "out", ".", "webm" >>, << "out", ".", "flv" >> },
      f \in FormatInputs, q \in QualityInputs, r \in ResolutionInputs, c \in CodecInputs }

\* requests a convert command is run with
CliRequests ==
  { Req(<< "a", ".", "mov" >>, o, f, q, r, c) :
      o \in { Empty, << "out", ".", "mkv" >>, << "out", ".", "flv" >>, << "out" >> },
      f \in { Empty, T("webm"), T("flv") },
      q \in { Empty, QualityLow, T("ultra") },
      r \in { Empty, T("720p"), T("big"), << "1920", "x", "1080" >> },
      c \in { Empty, T("vp9"), T("av1") } }

\* the request Convert is called with in SpecConvert
ConvertRequest ==
  Req(<< "a", ".", "mov" >>, << "a", "_converted", ".", "mp4" >>, T("mp4"),
      QualityMedium, Empty, Empty)

\* a line of the diagnostic stream: whether out_time_us=(\d+) matches, and the digits
Line(m, us) == [match |-> m, us |-> us]
NoLine == Line(FALSE, 0)

MarkerValues == { 5, 10, 30, MaxInt \div Microsecond + 1, MaxInt + 1 }

Lines == { Line(FALSE, 0) } \cup { Line(TRUE, us) : us \in MarkerValues }

\* a line's length in units; one of MaxTok + 1 units does not fit the scanner's buffer
LineLens == { 1, MaxTok + 1 }

Unit(eol, ln) == [eol |-> eol, line |-> IF eol THEN ln ELSE NoLine]

\* float64 seconds * float64(time.Second) of a probe output that parses: a finite
\* product (one past either end of the range stands for every value outside it,
\* the infinities included) or NaN
ProbeValues == { MinInt - 1, 0 - 5, 0, 20000, MaxInt + 1 }

\* ffprobe printed a number
ParsedOutcomes ==
  { [kind |-> "finite", x |-> x] : x \in ProbeValues } \cup { [kind |-> "nan", x |-> 0] }

\* ffprobe could not be started, exited non-zero, or printed no number
FailedOutcomes ==
  { [kind |-> k, x |-> 0] : k \in { "start_fail", "exit_fail", "unparsable" } }

ProbeOutcomes == ParsedOutcomes \cup FailedOutcomes

NoProbe == [kind |-> "none", x |-> 0]

\* probeDuration's results: the duration and whether an error is returned.
\* time.Duration(f) of an f outside int64, or NaN, is implementation-dependent:
\* amd64 gives the minimum; saturating targets clamp, with NaN as 0 or the maximum.
probeDuration(p) ==
  IF p.kind \in { "start_fail", "exit_fail", "unparsable" }
    THEN { [d |-> 0, err |-> TRUE] }
  ELSE IF p.kind = "nan"
    THEN { [d |-> v, err |-> FALSE] : v \in { MinInt, 0, MaxInt } }
  ELSE IF p.x < MinInt
    THEN { [d |-> MinInt, err |-> FALSE] }
  ELSE IF p.x > MaxInt
    THEN { [d |-> v, err |-> FALSE] : v \in { MinInt, MaxInt } }
  ELSE { [d |-> p.x, err |-> FALSE] }

probeFailureResult_Fatal(err) == IF err THEN "err_probe_failed" ELSE "none"

\* what a probe error makes Convert return: nothing, totalDuration is set to 0
probeFailureResult(err) == "none"

UseParser_NonZero(cb, total) == cb /\ total # 0

\* Convert's choice between parseProgress and io.Copy(io.Discard, stderr)
UseParser(cb, total) == cb /\ total > 0

\* what Convert returns once cmd.Wait() has
WaitResult(status) == IF status = 0 THEN "nil" ELSE "err_conversion_failed"

\* -------------------------------------------------------------------- Init
InitRest ==
  /\ prev = opts /\ opts0 = opts /\ resolves = 0 /\ result = "none"
  /\ args = << >> /\ argsBuilt = 0 /\ procs = << >>
  /\ probe = NoProbe /\ totalDuration = 0
  /\ capture = "none" /\ start = "none" /\ usedParser = FALSE
  /\ encState = "none" /\ exitStatus = 0 /\ encLine = NoLine /\ encRem = 0
  /\ encLines = 0 /\ markersWritten = 0
  /\ pipe = << >> /\ scanBuf = 0 /\ readLines = << >> /\ delivered = << >>

\* one run of the convert command
Init ==
  /\ pc = "cli_check" /\ viaCLI = TRUE
  /\ ffmpegInPath \in BOOLEAN /\ stat \in Stats
  /\ opts \in CliRequests
  /\ hasCallback = TRUE /\ lineBudget = 1
  /\ InitRest

\* one call of Convert on a resolved, validated request
InitConvert ==
  /\ pc = "probe" /\ viaCLI = FALSE
  /\ ffmpegInPath = TRUE /\ stat = "ok"
  /\ opts = ConvertRequest
  /\ hasCallback \in BOOLEAN /\ lineBudget = MaxLines
  /\ InitRest

\* the option functions applied to a request
InitOptions ==
  /\ pc = "fn" /\ viaCLI = FALSE
  /\ ffmpegInPath = TRUE /\ stat \in Stats
  /\ opts \in PathRequests \cup OptionRequests
  /\ hasCallback = FALSE /\ lineBudget = 0
  /\ InitRest

\* ------------------------------------------------------------ RunE (part_000)
CheckFFmpeg ==
  /\ pc = "cli_check"
  /\ \/ ffmpegInPath /\ pc' = "cli_resolve" /\ UNCHANGED result
     \/ ~ffmpegInPath /\ pc' = "exit" /\ result' = "ffmpeg_not_found"
  /\ UNCHANGED << optVars, cliVars, convVars, encVars, pipe, readVars >>

CliResolve ==
  /\ pc = "cli_resolve"
  /\ prev' = opts
  /\ opts' = ResolveOutput(opts)
  /\ resolves' = resolves + 1
  /\ pc' = "cli_validate"
  /\ UNCHANGED << result, cliVars, convVars, encVars, pipe, readVars >>

CliValidate ==
  /\ pc = "cli_validate"
  /\ LET err == ValidateOptions(opts, stat)
     IN  \/ err = "nil" /\ pc' = "probe" /\ UNCHANGED result
         \/ err # "nil" /\ pc' = "exit" /\ result' = err
  /\ UNCHANGED << optVars, cliVars, convVars, encVars, pipe, readVars >>

CliReturn ==
  /\ pc = "returned" /\ viaCLI
  /\ pc' = "exit"
  /\ UNCHANGED << result, optVars, cliVars, convVars, encVars, pipe, readVars >>

\* ------------------------------------------------------------------ Convert
ProbeWith(p) ==
  \E r \in probeDuration(p) :
    /\ probe' = p
    /\ totalDuration' = IF r.err THEN 0 ELSE r.d
    /\ procs' = IF p.kind = "start_fail" THEN procs ELSE Append(procs, "ffprobe")
    /\ result' = probeFailureResult(r.err)
    /\ pc' = IF probeFailureResult(r.err) = "none" THEN "build" ELSE "returned"

Probe ==
  /\ pc = "probe"
  /\ \/ \E p \in { q \in ParsedOutcomes : q.x \in 1..MaxInt } : ProbeWith(p)
     \/ \E p \in { q \in ParsedOutcomes : q.x \notin 1..MaxInt } : ProbeWith(p)
     \/ \E p \in FailedOutcomes : ProbeWith(p)
  /\ UNCHANGED << optVars, cliVars, args, argsBuilt, capture, start, usedParser,
                  encVars, pipe, readVars >>

BuildArgs ==
  /\ pc = "build"
  /\ args' = buildFFmpegArgs(opts)
  /\ argsBuilt' = argsBuilt + 1
  /\ pc' = "pipe"
  /\ UNCHANGED << result, optVars, cliVars, procs, probe, totalDuration, capture, start,
                  usedParser, encVars, pipe, readVars >>

StderrPipe ==
  /\ pc = "pipe"
  /\ \/ capture' = "ok" /\ pc' = "start" /\ UNCHANGED result
     \/ capture' = "fail" /\ pc' = "returned" /\ result' = "err_capture_failed"
  /\ UNCHANGED << optVars, cliVars, args, argsBuilt, procs, probe, totalDuration, start,
                  usedParser, encVars, pipe, readVars >>

Start ==
  /\ pc = "start"
  /\ \/ /\ start' = "ok"
        /\ procs' = Append(procs, "ffmpeg")
        /\ encState' = "running"
        /\ usedParser' = UseParser(hasCallback, totalDuration)
        /\ pc' = IF UseParser(hasCallback, totalDuration) THEN "parse" ELSE "drain"
        /\ UNCHANGED result
     \/ /\ start' = "fail"
        /\ pc' = "returned" /\ result' = "err_start_failed"
        /\ UNCHANGED << procs, encState, usedParser >>
  /\ UNCHANGED << optVars, cliVars, args, argsBuilt, probe, totalDuration, capture,
                  exitStatus, encLine, encRem, encLines, markersWritten, pipe, readVars >>

\* one step of parseProgress: the scanner takes a unit, or meets end-of-stream
parseProgress ==
  /\ pc = "parse"
  /\ \/ /\ pipe # << >> /\ Head(pipe).eol
        /\ pipe' = Tail(pipe)
        /\ scanBuf' = 0
        /\ readLines' = Append(readLines, Head(pipe).line)
        /\ delivered' =
             IF Head(pipe).line.match /\ ParseIntOk(Head(pipe).line.us)
               THEN Append(delivered, [us |-> Head(pipe).line.us,
                                       percent |-> percentOf(Head(pipe).line.us, totalDuration)])
               ELSE delivered
        /\ UNCHANGED pc
     \/ /\ pipe # << >> /\ ~Head(pipe).eol
        /\ pipe' = Tail(pipe)
        /\ scanBuf' = scanBuf + 1
        /\ pc' = IF scanBuf + 1 >= MaxTok THEN "wait" ELSE pc
        /\ UNCHANGED << readLines, delivered >>
     \/ /\ pipe = << >> /\ encState = "exited"
        /\ pc' = "wait"
        /\ UNCHANGED << pipe, readVars >>
  /\ UNCHANGED << result, optVars, cliVars, convVars, encVars >>

\* one step of io.Copy(io.Discard, stderr)
Drain ==
  /\ pc = "drain"
  /\ \/ pipe # << >> /\ pipe' = Tail(pipe) /\ UNCHANGED pc
     \/ pipe = << >> /\ encState = "exited" /\ pc' = "wait" /\ UNCHANGED pipe
  /\ UNCHANGED << result, optVars, cliVars, convVars, encVars, readVars >>

\* cmd.Wait() returns once the encoder has exited
Wait ==
  /\ pc = "wait"
  /\ encState = "exited"
  /\ result' = WaitResult(exitStatus)
  /\ pipe' = << >>
  /\ pc' = "returned"
  /\ UNCHANGED << optVars, cliVars, convVars, encVars, readVars >>

\* ------------------------------------------------------------- the encoder
\* the encoder writes one unit to stderr; a write blocks while the pipe is full
EncWrite ==
  /\ encState = "running"
  /\ Len(pipe) < PipeCap
  /\ \/ /\ encRem = 0 /\ encLines < lineBudget
        /\ \E ln \in Lines, n \in LineLens :
             /\ encLine' = ln
             /\ encRem' = n - 1
             /\ pipe' = Append(pipe, Unit(n = 1, ln))
             /\ markersWritten' = markersWritten + (IF ln.match THEN 1 ELSE 0)
        /\ encLines' = encLines + 1
     \/ /\ encRem > 0
        /\ encRem' = encRem - 1
        /\ pipe' = Append(pipe, Unit(encRem = 1, encLine))
        /\ UNCHANGED << encLine, encLines, markersWritten >>
  /\ UNCHANGED << pc, result, optVars, cliVars, convVars, encState, exitStatus, readVars >>

EncExit ==
  /\ encState = "running"
  /\ encRem = 0
  /\ encState' = "exited"
  /\ \E st \in { 0, 1 } : exitStatus' = st
  /\ UNCHANGED << pc, result, optVars, cliVars, convVars, encLine, encRem, encLines,
                  markersWritten, pipe, readVars >>

ConvertNext ==
  \/ Probe \/ BuildArgs \/ StderrPipe \/ Start
  \/ parseProgress \/ Drain \/ Wait
  \/ EncWrite \/ EncExit

\* --------------------------------------------------- the option functions
OptResolve ==
  /\ pc = "fn" /\ result = "none" /\ resolves < MaxResolves
  /\ prev' = opts
  /\ opts' = ResolveOutput(opts)
  /\ resolves' = resolves + 1
  /\ UNCHANGED << pc, result, cliVars, convVars, encVars, pipe, readVars >>

OptValidate ==
  /\ pc = "fn" /\ result = "none" /\ resolves > 0
  /\ result' = ValidateOptions(opts, stat)
  /\ UNCHANGED << pc, optVars, cliVars, convVars, encVars, pipe, readVars >>

OptBuild ==
  /\ pc = "fn" /\ result = "nil" /\ argsBuilt = 0
  /\ args' = buildFFmpegArgs(opts)
  /\ argsBuilt' = argsBuilt + 1
  /\ UNCHANGED << pc, result, optVars, cliVars, procs, probe, totalDuration, capture,
                  start, usedParser, encVars, pipe, readVars >>

\* ---------------------------------------------------------- specifications
Next == CheckFFmpeg \/ CliResolve \/ CliValidate \/ CliReturn \/ ConvertNext

NextConvert == ConvertNext

NextOptions == OptResolve \/ OptValidate \/ OptBuild

Spec == Init /\ [][Next]_vars

SpecConvert == InitConvert /\ [][NextConvert]_vars

SpecOptions == InitOptions /\ [][NextOptions]_vars

\* ------------------------------------------------------------------ claims
Count(seq, x) == Cardinality({ i \in 1..Len(seq) : seq[i] = x })

Positions(seq, x) == { i \in 1..Len(seq) : seq[i] = x }

\* C1: the encoder never blocks for good on a full, unread pipe: from the start
\* of the encoder until Convert returns, Convert or the encoder can always take
\* a step (the stream is read on, the encoder writes or exits, the wait returns).
C1_NeverStuckBeforeReturn ==
  pc \in { "parse", "drain", "wait" } => ENABLED NextConvert

\* C2: every percentage handed to the callback lies in [0,100], and a marker
\* implying more than 100% is delivered as exactly 100.
C2_PercentInRange ==
  \A i \in 1..Len(delivered) :
    /\ ~RatLT(delivered[i].percent, 0)
    /\ ~RatGT(delivered[i].percent, 100)
    /\ delivered[i].us * Microsecond > totalDuration
         => delivered[i].percent = Rat(100, 1)

\* C3: in a run of the convert command, once an external process has been
\* started or the argument list built, the request satisfies every validation
\* rule on output, format, quality, codec and resolution.
C3_NoProcessForInvalidRequest ==
  (procs # << >> \/ argsBuilt > 0) =>
    /\ opts.Output # Empty /\ opts.Format # Empty /\ opts.Quality # Empty
    /\ opts.Format \in { T("mp4"), T("mkv"), T("webm"), T("avi"), T("mov") }
    /\ opts.Quality \in { T("low"), T("medium"), T("high"), T("lossless") }
    /\ opts.Codec \in { Empty, T("h264"), T("h265"), T("vp9") }
    /\ \/ opts.Resolution = Empty
       \/ opts.Resolution \in ResolutionPresets
       \/ MatchesWxH(opts.Resolution)

\* the encoder runs for a request whose format was inferred from the output path
C3_Witness ==
  /\ Count(procs, "ffmpeg") = 1 /\ Count(procs, "ffprobe") = 1
  /\ opts0.Format = Empty /\ opts0.Output = << "out", ".", "mkv" >>
  /\ opts.Format = T("mkv")

DurationZeroOrUnknown ==
  \/ probe.kind \in { "start_fail", "exit_fail", "unparsable" }
  \/ probe.kind = "finite" /\ probe.x <= 0
  \/ totalDuration = 0

\* C4: when the duration is zero or unknown, or no callback was supplied, Convert
\* never calls the parser or the callback and drains the stream to end-of-stream;
\* the parser only ever runs with a callback and a positive duration.
C4_NoParserWithoutDuration ==
  /\ (encState # "none" /\ (DurationZeroOrUnknown \/ ~hasCallback)) =>
       /\ ~usedParser /\ readLines = << >> /\ delivered = << >>
       /\ pc \in { "drain", "wait", "returned" }
       /\ pc = "wait" => (encState = "exited" /\ pipe = << >>)
  /\ usedParser => (hasCallback /\ totalDuration > 0)
  /\ delivered # << >> => (usedParser /\ totalDuration > 0)

\* a callback was supplied, the probe's output did not parse, the encoder wrote
\* a marker line and the stream has been drained
C4_Witness ==
  /\ pc = "wait" /\ ~usedParser /\ hasCallback
  /\ probe.kind = "unparsable" /\ markersWritten > 0

ErrorIffEncoderFailure ==
  (result # "nil") <=>
    \/ capture = "fail"
    \/ start = "fail"
    \/ encState = "exited" /\ exitStatus # 0

\* C5 as stated: whatever the probe did, Convert builds the arguments and starts
\* the encoder exactly once, and returns an error iff the pipe capture fails, the
\* start fails or the encoder exits non-zero.
C5_StartsEncoderExactlyOnce ==
  pc = "returned" =>
    /\ argsBuilt = 1
    /\ Count(procs, "ffmpeg") = 1
    /\ ErrorIffEncoderFailure

\* C5 amended: whatever the probe did, Convert builds the arguments exactly once
\* and starts the encoder exactly once unless capturing the pipe or the start
\* itself fails (then the encoder never runs); nothing is done twice; and it
\* returns an error iff the capture fails, the start fails or the encoder exits
\* non-zero.
C5_ProbeNeverFatalNoRetry ==
  /\ argsBuilt <= 1 /\ Count(procs, "ffmpeg") <= 1 /\ Count(procs, "ffprobe") <= 1
  /\ pc = "returned" =>
       /\ argsBuilt = 1
       /\ Count(procs, "ffmpeg") =
            (IF capture = "fail" \/ start = "fail" THEN 0 ELSE 1)
       /\ ErrorIffEncoderFailure

\* the probe failed and Convert returned no error after one encoder run
C5_Witness ==
  /\ pc = "returned" /\ result = "nil"
  /\ probe.kind \in { "start_fail", "exit_fail", "unparsable" }
  /\ Count(procs, "ffmpeg") = 1

\* the library the claim names for a request
ClaimedLibrary(o) ==
  CASE o.Codec = T("h264") -> << "lib", "x264" >>
    [] o.Codec = T("h265") -> << "lib", "x265" >>
    [] o.Codec = T("vp9") -> << "lib", "vpx", "-vp9" >>
    [] o.Codec = Empty /\ o.Format = T("webm") -> << "lib", "vpx", "-vp9" >>
    [] OTHER -> << "lib", "x264" >>

\* C6: the argument list of a resolved, validated request names after "-c:v" the
\* library of the explicit codec, else the VP9 library for webm, else libx264,
\* and carries "-b:v" "0" directly after the rate-factor pair iff that library
\* is the VP9 library.
C6_CompanionFlagIffVp9 ==
  argsBuilt > 0 =>
    /\ \E i \in 1..(Len(args) - 1) :
         /\ Positions(args, T("-c:v")) = { i }
         /\ args[i + 1] = ClaimedLibrary(opts)
    /\ \E j \in 1..(Len(args) - 1) :
         /\ Positions(args, T("-crf")) = { j }
         /\ LET companion == /\ j + 3 <= Len(args)
                             /\ args[j + 2] = T("-b:v")
                             /\ args[j + 3] = T("0")
            IN  /\ companion <=> (ClaimedLibrary(opts) = << "lib", "vpx", "-vp9" >>)
                /\ ~companion => Positions(args, T("-b:v")) = { }

\* an explicit vp9 codec with a non-webm format: the companion pair is there
C6_Witness ==
  /\ argsBuilt > 0
  /\ opts.Codec = T("vp9") /\ opts.Format = T("mp4")
  /\ Positions(args, T("-b:v")) # { }

\* C7: the argument list holds exactly one "-crf" and the value after it is the
\* table value of the resolved quality (an unset quality gives 23).
C7_RateFactorMatchesTable ==
  argsBuilt > 0 =>
    \E j \in 1..(Len(args) - 1) :
      /\ Positions(args, T("-crf")) = { j }
      /\ args[j + 1] =
           (CASE opts.Quality = T("low") -> << "2", "8" >>
              [] opts.Quality = T("medium") -> << "2", "3" >>
              [] opts.Quality = T("high") -> << "1", "8" >>
              [] opts.Quality = T("lossless") -> << "0" >>)
      /\ opts0.Quality = Empty => args[j + 1] = << "2", "3" >>

\* an unset quality was resolved and the arguments were built
C7_Witness ==
  /\ argsBuilt > 0 /\ opts0.Quality = Empty
  /\ \E j \in 1..(Len(args) - 1) : args[j] = T("-crf") /\ args[j + 1] = << "2", "3" >>

\* the input path without its file extension: the part of the file name (what
\* follows the last "/") from its last "." on is removed
FileStem(path) ==
  LET slashes == Positions(path, "/")
      lastSlash == IF slashes = { } THEN 0
                   ELSE CHOOSE i \in slashes : \A k \in slashes : k <= i
      dots == { i \in Positions(path, ".") : i > lastSlash }
  IN  IF dots = { } THEN path
      ELSE SubSeq(path, 1, (CHOOSE i \in dots : \A k \in dots : k <= i) - 1)

\* C8: an empty output is resolved to <input-stem>_converted.<format>, the stem
\* being the input path without its file extension and the format the explicit
\* one, else mp4.
C8_SynthesizedOutput ==
  (resolves >= 1 /\ opts0.Output = Empty) =>
    opts.Output = FileStem(opts0.Input) \o << "_converted", "." >>
                    \o (IF opts0.Format # Empty THEN opts0.Format ELSE T("mp4"))

FullySpecified(o) == o.Output # Empty /\ o.Format # Empty /\ o.Quality # Empty

\* C9: ResolveOutput leaves a request with output, format and quality all set
\* unchanged, and resolving a resolved request changes nothing.
C9_ResolveIdempotent ==
  resolves >= 1 =>
    /\ FullySpecified(prev) => opts = prev
    /\ resolves >= 2 => opts = prev

\* a request with nothing set was resolved twice; the first call filled it in
C9_Witness ==
  /\ resolves = 2
  /\ opts0.Output = Empty /\ opts0.Format = Empty /\ opts0.Quality = Empty
  /\ opts # opts0 /\ opts = prev

\* the percentage of a marker clamped to [0,100], in exact arithmetic
ClampedPercent(us, total) ==
  IF us * Microsecond > total THEN Rat(100, 1) ELSE Rat(us * Microsecond * 100, total)

IsMarkerLine(ln) == ln.match

\* C10: the callback is invoked once per line read that carries a marker, never
\* for another line, in stream order, with the clamped percentage of the marker.
C10_CallbackPerMarkerInOrder ==
  usedParser =>
    LET matching == SelectSeq(readLines, IsMarkerLine)
    IN  /\ Len(delivered) = Len(matching)
        /\ \A i \in 1..Len(delivered) :
             /\ delivered[i].us = matching[i].us
             /\ delivered[i].percent = ClampedPercent(matching[i].us, totalDuration)

====
